---- MODULE Spec2Model ----
(***************************************************************************)
(* Model of DI::Container (src/DI/Container.hpp): the three registry        *)
(* partitions, the typed holders, scopes and the Register* / Resolve* /     *)
(* CreateScope operations, driven by a client that calls them in any order  *)
(* with the interfaces and implementations of src/Examples.                 *)
(***************************************************************************)
EXTENDS Naturals, Sequences, FiniteSets

\* ------------------------------------------------------------------ bounds
MaxInstances == 2   \* instances constructed by factories in one run
MaxScopes == 2      \* scopes created in one run
MaxHolders == 2     \* holders registered over the three partitions in one run
MaxHandles == 2     \* holders of one scope's std::shared_ptr<Scope> at a time
MaxThreads == 2     \* threads calling into the container without a lock

\* ---------------------------------------------------------------- universe
\* typeid(TInterface).name() of the interfaces of AdvancedExample
Interfaces == {"ILogger", "IService"}

\* the tags the examples use: the default tag and a named one
Tags == {"", "Service2"}

\* the implementations deriving from each interface (the static_assert of Register*)
ImplsOf(typeName) ==
    IF typeName = "ILogger" THEN {"Logger"} ELSE {"Service", "Service2"}

Impls == UNION {ImplsOf(i) : i \in Interfaces}

\* the singleton keys an implementation's constructor resolves, in member order
CtorResolves(impl) ==
    IF impl \in {"Service", "Service2"} THEN << <<"ILogger", "">> >>
    ELSE IF impl = "SubDependencies::Service"
         THEN << <<"SubDependencies::ILogger", "">> >>
    ELSE IF impl \in {"AdvancedExample::Service", "AdvancedExample::Service2"}
         THEN << <<"AdvancedExample::ILogger", "">> >>
    ELSE IF impl = "WebServerExample::HomeController"
         THEN << <<"WebServerExample::ILogger", "">> >>
    ELSE IF impl = "WebServerExample::UserController"
         THEN << <<"WebServerExample::ILogger", "">>, <<"WebServerExample::IDatabase", "">> >>
    ELSE IF impl \in {"AdvancedWebExample::HomeController",
                      "AdvancedWebExample::UserController"}
         THEN << <<"AdvancedWebExample::ILogger", "">> >>
    ELSE << >>

\* a shared_ptr / weak_ptr value: the identity of the instance it points to and
\* the instance's dynamic type; identities are handed out in order of construction
Instance(id, impl) == [id |-> id, impl |-> impl]

\* the null shared_ptr / the empty weak_ptr
NoInstance == Instance(0, "")

EmptyMap == [x \in {} |-> x]

VARIABLES
    singletonServices,  \* typeName -> tag -> TypedServiceSingleton (its instance)
    transientServices,  \* typeName -> tag -> TypedService (the creator's impl)
    scopedServices,     \* typeName -> tag -> TypedService (the creator's impl)
    scopes,             \* the Scope objects created so far: each its services map
    constructed,        \* how many instances the factories have constructed so far
    scopeLog,           \* history: per scope, the keys ResolveScoped returned a valid reference for
    last,               \* history: the last call, its arguments and what it returned or threw
    scopeHolders,       \* per scope, the use count of its std::shared_ptr<Scope>; 0 = destroyed
    weak,               \* the std::weak_ptr values ResolveScoped has handed to the caller
    locked,             \* identities the caller owns a shared_ptr to, obtained by weak_ptr::lock
    destroyed,          \* identities of the scoped instances whose destructor has run
    threads             \* per thread, its position in an unlocked call and the call's locals

vars == <<singletonServices, transientServices, scopedServices, scopes,
          constructed, scopeLog, last, scopeHolders, weak, locked, destroyed, threads>>

registry == <<singletonServices, transientServices, scopedServices>>

\* what the sequential Register* / Resolve* calls leave alone
rest == <<scopeHolders, weak, locked, destroyed, threads>>

Threads == 1..MaxThreads

\* a thread that is in no call
Idle == [pc |-> "idle", stmt |-> 0, scope |-> 0, typeName |-> "", tag |-> "", impl |-> "",
         service |-> NoInstance, replaced |-> NoInstance, outcome |-> "", what |-> ""]

\* ----------------------------------------------------------- map helpers
\* find(typeName) != end() and then find(tag) != end()
HasService(map, typeName, tag) ==
    /\ typeName \in DOMAIN map
    /\ tag \in DOMAIN map[typeName]

\* map[typeName][tag] = service
Insert(map, typeName, tag, service) ==
    LET inner == IF typeName \in DOMAIN map THEN map[typeName] ELSE EmptyMap
        stored == [t \in DOMAIN inner \cup {tag} |->
                      IF t = tag THEN service ELSE inner[t]]
    IN  [n \in DOMAIN map \cup {typeName} |->
            IF n = typeName THEN stored ELSE map[n]]

\* scope->services[typeName] = newService
ScopeStore(services, typeName, newService) ==
    [n \in DOMAIN services \cup {typeName} |->
        IF n = typeName THEN newService ELSE services[n]]

\* scope->services.count(typeName)
ScopeHas(services, typeName, tag) == typeName \in DOMAIN services

\* bound of the model: the holders a partition has, and those of the three together
HolderCount(map) ==
    LET Keys == {k \in Interfaces \X Tags : HasService(map, k[1], k[2])}
    IN  Cardinality(Keys)

Holders == HolderCount(singletonServices) + HolderCount(transientServices)
             + HolderCount(scopedServices)

\* ------------------------------------------------------- call outcomes
Returned(inst) == [outcome |-> "ok", what |-> "", result |-> inst]
Empty == [outcome |-> "empty", what |-> "", result |-> NoInstance]
Thrown(error, typeName) == [outcome |-> error, what |-> typeName, result |-> NoInstance]

\* mutation of SingletonLookup: the holder is looked up by type alone, as the scope's
\* entries are, so any tag of the interface answers
SingletonLookupByTypeOnly(singletons, typeName, tag) ==
    IF typeName \notin DOMAIN singletons
    THEN Thrown("ServiceNotRegistered", typeName)
    ELSE LET t == CHOOSE t \in DOMAIN singletons[typeName] :
                     \A u \in DOMAIN singletons[typeName] :
                         singletons[typeName][t].instance.id
                           <= singletons[typeName][u].instance.id
         IN  Returned(singletons[typeName][t].instance)

\* ResolveSingleton as a function of the singleton partition
SingletonLookup(singletons, typeName, tag) ==
    IF typeName \notin DOMAIN singletons
    THEN Thrown("ServiceNotRegistered", typeName)
    ELSE IF tag \notin DOMAIN singletons[typeName]
         THEN Thrown("ServiceNotRegistered", typeName)
         ELSE Returned(singletons[typeName][tag].instance)

\* TImplementation's constructor: its member initialisers resolve singletons in
\* order; the first that throws ends the construction
RECURSIVE RunCtor(_, _, _)
RunCtor(deps, n, singletons) ==
    IF n > Len(deps) THEN Returned(NoInstance)
    ELSE LET r == SingletonLookup(singletons, deps[n][1], deps[n][2])
         IN  IF r.outcome /= "ok" THEN r ELSE RunCtor(deps, n + 1, singletons)

\* the creator [] { return std::make_shared<TImplementation>(); }
Creator(impl, singletons, heap) ==
    LET c == RunCtor(CtorResolves(impl), 1, singletons)
    IN  IF c.outcome /= "ok" THEN c ELSE Returned(Instance(heap + 1, impl))

\* history: the record of a call, its arguments, its outcome r and the number of
\* factory invocations it made; scope is the index of the scope argument or, for the
\* calls made on a reference, the id of the instance the reference names
Call(op, typeName, tag, impl, scope, r, calls) ==
    [op |-> op, typeName |-> typeName, tag |-> tag, impl |-> impl, scope |-> scope,
     outcome |-> r.outcome, what |-> r.what, result |-> r.result, factoryCalls |-> calls]

\* -------------------------------------------------------------------- Init
Init ==
    /\ singletonServices = EmptyMap
    /\ transientServices = EmptyMap
    /\ scopedServices = EmptyMap
    /\ scopes = << >>
    /\ constructed = 0
    /\ scopeLog = << >>
    /\ last = Call("none", "", "", "", 0, Empty, 0)
    /\ scopeHolders = << >>
    /\ weak = {}
    /\ locked = {}
    /\ destroyed = {}
    /\ threads = [t \in Threads |-> Idle]

\* ------------------------------------------------------------ registration
\* mutation of RegisterSingleton: the duplicate check is missing and the holder of a
\* registered key is replaced
RegisterSingletonNoDuplicateCheck(typeName, impl, tag) ==
    LET r == Creator(impl, singletonServices, constructed)
    IN  /\ constructed < MaxInstances
        /\ Holders < MaxHolders
        /\ last' = Call("RegisterSingleton", typeName, tag, impl, 0,
                        IF r.outcome = "ok" THEN Returned(NoInstance) ELSE r, 1)
        /\ IF r.outcome = "ok"
           THEN /\ constructed' = constructed + 1
                /\ singletonServices' =
                       Insert(singletonServices, typeName, tag, [instance |-> r.result])
           ELSE UNCHANGED <<singletonServices, constructed>>
        /\ UNCHANGED <<transientServices, scopedServices, scopes, scopeLog, rest>>

\* mutation of RegisterSingleton: the holder is stored before SetCreator runs the
\* creator, so a constructor that throws leaves a holder without an instance
RegisterSingletonStoresFirst(typeName, impl, tag) ==
    IF HasService(singletonServices, typeName, tag)
    THEN /\ last' = Call("RegisterSingleton", typeName, tag, impl, 0,
                         Thrown("DuplicateRegistration", ""), 0)
         /\ UNCHANGED <<registry, scopes, constructed, scopeLog, rest>>
    ELSE LET r == Creator(impl, singletonServices, constructed)
         IN  /\ constructed < MaxInstances
             /\ Holders < MaxHolders
             /\ last' = Call("RegisterSingleton", typeName, tag, impl, 0,
                             IF r.outcome = "ok" THEN Returned(NoInstance) ELSE r, 1)
             /\ constructed' = IF r.outcome = "ok" THEN constructed + 1
                                                  ELSE constructed
             /\ singletonServices' =
                    Insert(singletonServices, typeName, tag, [instance |-> r.result])
             /\ UNCHANGED <<transientServices, scopedServices, scopes, scopeLog, rest>>

\* mutation of RegisterSingleton: the holder is made, and its creator run, before the
\* duplicate check
RegisterSingletonCreatesFirst(typeName, impl, tag) ==
    LET r == Creator(impl, singletonServices, constructed)
    IN  /\ constructed < MaxInstances
        /\ constructed' = IF r.outcome = "ok" THEN constructed + 1 ELSE constructed
        /\ IF r.outcome /= "ok"
           THEN /\ last' = Call("RegisterSingleton", typeName, tag, impl, 0, r, 1)
                /\ UNCHANGED singletonServices
           ELSE IF HasService(singletonServices, typeName, tag)
           THEN /\ last' = Call("RegisterSingleton", typeName, tag, impl, 0,
                                Thrown("DuplicateRegistration", ""), 1)
                /\ UNCHANGED singletonServices
           ELSE /\ Holders < MaxHolders
                /\ last' = Call("RegisterSingleton", typeName, tag, impl, 0,
                                Returned(NoInstance), 1)
                /\ singletonServices' =
                       Insert(singletonServices, typeName, tag, [instance |-> r.result])
        /\ UNCHANGED <<transientServices, scopedServices, scopes, scopeLog, rest>>

RegisterSingleton(typeName, impl, tag) ==
    IF HasService(singletonServices, typeName, tag)
    THEN /\ last' = Call("RegisterSingleton", typeName, tag, impl, 0,
                         Thrown("DuplicateRegistration", ""), 0)
         /\ UNCHANGED <<registry, scopes, constructed, scopeLog, rest>>
    ELSE LET r == Creator(impl, singletonServices, constructed)
         IN  /\ constructed < MaxInstances
             /\ last' = Call("RegisterSingleton", typeName, tag, impl, 0,
                             IF r.outcome = "ok" THEN Returned(NoInstance) ELSE r, 1)
             /\ IF r.outcome = "ok"
                THEN /\ Holders < MaxHolders
                     /\ constructed' = constructed + 1
                     /\ singletonServices' =
                            Insert(singletonServices, typeName, tag,
                                   [instance |-> r.result])
                ELSE UNCHANGED <<singletonServices, constructed>>
             /\ UNCHANGED <<transientServices, scopedServices, scopes, scopeLog, rest>>

\* mutation of RegisterTransient: one map for the holders of singletons and of
\* transients, the factory holder is stored in singletonServices
RegisterTransientIntoSingletons(typeName, impl, tag) ==
    IF HasService(singletonServices, typeName, tag)
    THEN /\ last' = Call("RegisterTransient", typeName, tag, impl, 0,
                         Thrown("DuplicateRegistration", ""), 0)
         /\ UNCHANGED <<registry, scopes, constructed, scopeLog, rest>>
    ELSE /\ Holders < MaxHolders
         /\ singletonServices' = Insert(singletonServices, typeName, tag, [impl |-> impl])
         /\ last' = Call("RegisterTransient", typeName, tag, impl, 0,
                         Returned(NoInstance), 0)
         /\ UNCHANGED <<transientServices, scopedServices, scopes, constructed,
                     scopeLog, rest>>

\* mutation of RegisterTransient: a second registration of a key replaces its holder
RegisterTransientReplaces(typeName, impl, tag) ==
    /\ HasService(transientServices, typeName, tag) \/ Holders < MaxHolders
    /\ transientServices' = Insert(transientServices, typeName, tag, [impl |-> impl])
    /\ last' = Call("RegisterTransient", typeName, tag, impl, 0, Returned(NoInstance), 0)
    /\ UNCHANGED <<singletonServices, scopedServices, scopes, constructed, scopeLog, rest>>

\* mutation of RegisterTransient: one namespace for the singleton and the transient
\* partitions, a key bound as a singleton is a duplicate
RegisterTransientSharedNamespace(typeName, impl, tag) ==
    IF \/ HasService(transientServices, typeName, tag)
       \/ HasService(singletonServices, typeName, tag)
    THEN /\ last' = Call("RegisterTransient", typeName, tag, impl, 0,
                         Thrown("DuplicateRegistration", ""), 0)
         /\ UNCHANGED <<registry, scopes, constructed, scopeLog, rest>>
    ELSE /\ Holders < MaxHolders
         /\ transientServices' =
                Insert(transientServices, typeName, tag, [impl |-> impl])
         /\ last' = Call("RegisterTransient", typeName, tag, impl, 0,
                         Returned(NoInstance), 0)
         /\ UNCHANGED <<singletonServices, scopedServices, scopes, constructed,
                     scopeLog, rest>>

RegisterTransient(typeName, impl, tag) ==
    IF HasService(transientServices, typeName, tag)
    THEN /\ last' = Call("RegisterTransient", typeName, tag, impl, 0,
                         Thrown("DuplicateRegistration", ""), 0)
         /\ UNCHANGED <<registry, scopes, constructed, scopeLog, rest>>
    ELSE /\ Holders < MaxHolders
         /\ transientServices' =
                Insert(transientServices, typeName, tag, [impl |-> impl])
         /\ last' = Call("RegisterTransient", typeName, tag, impl, 0,
                         Returned(NoInstance), 0)
         /\ UNCHANGED <<singletonServices, scopedServices, scopes, constructed,
                     scopeLog, rest>>

RegisterScoped(typeName, impl, tag) ==
    IF HasService(scopedServices, typeName, tag)
    THEN /\ last' = Call("RegisterScoped", typeName, tag, impl, 0,
                         Thrown("DuplicateRegistration", ""), 0)
         /\ UNCHANGED <<registry, scopes, constructed, scopeLog, rest>>
    ELSE /\ Holders < MaxHolders
         /\ scopedServices' =
                Insert(scopedServices, typeName, tag, [impl |-> impl])
         /\ last' = Call("RegisterScoped", typeName, tag, impl, 0,
                         Returned(NoInstance), 0)
         /\ UNCHANGED <<singletonServices, transientServices, scopes, constructed,
                     scopeLog, rest>>

\* -------------------------------------------------------------- resolution
\* mutation of ResolveSingleton: CreateService of the singleton holder invokes the
\* creator, as TypedService::CreateService does
ResolveSingletonInvokesCreator(typeName, tag) ==
    IF ~HasService(singletonServices, typeName, tag)
    THEN /\ last' = Call("ResolveSingleton", typeName, tag, "", 0,
                         Thrown("ServiceNotRegistered", typeName), 0)
         /\ UNCHANGED <<registry, scopes, constructed, scopeLog, rest>>
    ELSE LET r == Creator(singletonServices[typeName][tag].instance.impl,
                          singletonServices, constructed)
         IN  /\ constructed < MaxInstances
             /\ last' = Call("ResolveSingleton", typeName, tag, "", 0, r, 1)
             /\ constructed' = IF r.outcome = "ok" THEN constructed + 1
                                                  ELSE constructed
             /\ UNCHANGED <<registry, scopes, scopeLog, rest>>

ResolveSingleton(typeName, tag) ==
    /\ last' = Call("ResolveSingleton", typeName, tag, "", 0,
                    SingletonLookup(singletonServices, typeName, tag), 0)
    /\ UNCHANGED <<registry, scopes, constructed, scopeLog, rest>>

\* mutation of ResolveTransient: the holder is looked up in singletonServices and its
\* stored instance returned
ResolveTransientFromSingletons(typeName, tag) ==
    /\ last' = Call("ResolveTransient", typeName, tag, "", 0,
                    SingletonLookup(singletonServices, typeName, tag), 0)
    /\ UNCHANGED <<registry, scopes, constructed, scopeLog, rest>>

\* mutation of ResolveTransient: the instance it creates is kept, as the singleton of
\* the key when there is none
ResolveTransientCaches(typeName, tag) ==
    IF ~HasService(transientServices, typeName, tag)
    THEN /\ last' = Call("ResolveTransient", typeName, tag, "", 0,
                         Thrown("ServiceNotRegistered", typeName), 0)
         /\ UNCHANGED <<registry, scopes, constructed, scopeLog, rest>>
    ELSE LET impl == transientServices[typeName][tag].impl
             r == Creator(impl, singletonServices, constructed)
         IN  /\ constructed < MaxInstances
             /\ last' = Call("ResolveTransient", typeName, tag, "", 0, r, 1)
             /\ constructed' = IF r.outcome = "ok" THEN constructed + 1
                                                  ELSE constructed
             /\ singletonServices' =
                    IF r.outcome = "ok" /\ ~HasService(singletonServices, typeName, tag)
                    THEN Insert(singletonServices, typeName, tag, [instance |-> r.result])
                    ELSE singletonServices
             /\ UNCHANGED <<transientServices, scopedServices, scopes, scopeLog, rest>>

ResolveTransient(typeName, tag) ==
    IF ~HasService(transientServices, typeName, tag)
    THEN /\ last' = Call("ResolveTransient", typeName, tag, "", 0,
                         Thrown("ServiceNotRegistered", typeName), 0)
         /\ UNCHANGED <<registry, scopes, constructed, scopeLog, rest>>
    ELSE LET impl == transientServices[typeName][tag].impl
             r == Creator(impl, singletonServices, constructed)
         IN  /\ constructed < MaxInstances
             /\ last' = Call("ResolveTransient", typeName, tag, "", 0, r, 1)
             /\ constructed' = IF r.outcome = "ok" THEN constructed + 1
                                                  ELSE constructed
             /\ UNCHANGED <<registry, scopes, scopeLog, rest>>

CreateScope ==
    /\ Len(scopes) < MaxScopes
    /\ scopes' = Append(scopes, EmptyMap)
    /\ scopeLog' = Append(scopeLog, {})
    /\ scopeHolders' = Append(scopeHolders, 1)
    /\ last' = Call("CreateScope", "", "", "", Len(scopes) + 1, Returned(NoInstance), 0)
    /\ UNCHANGED <<registry, constructed, weak, locked, destroyed, threads>>

\* mutation of ResolveScopedCreate: the slot of the scope is taken before the factory
\* runs, and stays taken when the constructor throws
ResolveScopedCreateReservesSlot(s, typeName, tag) ==
    IF ~HasService(scopedServices, typeName, tag)
    THEN /\ last' = Call("ResolveScoped", typeName, tag, "", s,
                         Thrown("ServiceNotRegistered", typeName), 0)
         /\ UNCHANGED <<registry, scopes, constructed, scopeLog, rest>>
    ELSE LET impl == scopedServices[typeName][tag].impl
             r == Creator(impl, singletonServices, constructed)
         IN  /\ constructed < MaxInstances
             /\ last' = Call("ResolveScoped", typeName, tag, "", s, r, 1)
             /\ scopes' = [scopes EXCEPT ![s] = ScopeStore(@, typeName, r.result)]
             /\ IF r.outcome = "ok"
                THEN /\ constructed' = constructed + 1
                     /\ scopeLog' = [scopeLog EXCEPT ![s] = @ \cup {<<typeName, tag>>}]
                     /\ weak' = weak \cup {r.result}
                ELSE UNCHANGED <<constructed, scopeLog, weak>>
             /\ UNCHANGED <<registry, scopeHolders, locked, destroyed, threads>>

\* ResolveScoped past the scope check: the lookup in scopedServices, the factory
\* call and the store into the scope
ResolveScopedCreate(s, typeName, tag) ==
    IF ~HasService(scopedServices, typeName, tag)
    THEN /\ last' = Call("ResolveScoped", typeName, tag, "", s,
                         Thrown("ServiceNotRegistered", typeName), 0)
         /\ UNCHANGED <<registry, scopes, constructed, scopeLog, rest>>
    ELSE LET impl == scopedServices[typeName][tag].impl
             r == Creator(impl, singletonServices, constructed)
         IN  /\ constructed < MaxInstances
             /\ last' = Call("ResolveScoped", typeName, tag, "", s, r, 1)
             /\ IF r.outcome = "ok"
                THEN /\ constructed' = constructed + 1
                     /\ scopes' = [scopes EXCEPT ![s] = ScopeStore(@, typeName, r.result)]
                     /\ scopeLog' = [scopeLog EXCEPT ![s] = @ \cup {<<typeName, tag>>}]
                     /\ weak' = weak \cup {r.result}
                ELSE UNCHANGED <<scopes, constructed, scopeLog, weak>>
             /\ UNCHANGED <<registry, scopeHolders, locked, destroyed, threads>>

\* mutation of ResolveScoped: no scope check, every call creates an instance and
\* stores it over the one the scope holds
ResolveScopedSkipsScopeCheck(s, typeName, tag) == ResolveScopedCreate(s, typeName, tag)

\* mutation of ResolveScoped: a scope that already has the service returns a
\* reference to the instance it holds
ResolveScopedReturnsExisting(s, typeName, tag) ==
    IF ScopeHas(scopes[s], typeName, tag)
    THEN /\ last' = Call("ResolveScoped", typeName, tag, "", s,
                         Returned(scopes[s][typeName]), 0)
         /\ UNCHANGED <<registry, scopes, constructed, scopeLog, rest>>
    ELSE ResolveScopedCreate(s, typeName, tag)

ResolveScoped(s, typeName, tag) ==
    IF ScopeHas(scopes[s], typeName, tag)
    THEN /\ last' = Call("ResolveScoped", typeName, tag, "", s, Empty, 0)
         /\ UNCHANGED <<registry, scopes, constructed, scopeLog, rest>>
    ELSE ResolveScopedCreate(s, typeName, tag)

\* the scopes the caller still holds a handle to
LiveScopes == {s \in DOMAIN scopes : scopeHolders[s] > 0}

\* -------------------------------------------------------------------- Next
Next ==
    \/ \E i \in Interfaces, t \in Tags : \E m \in ImplsOf(i) : RegisterSingleton(i, m, t)
    \/ \E i \in Interfaces, t \in Tags : \E m \in ImplsOf(i) : RegisterTransient(i, m, t)
    \/ \E i \in Interfaces, t \in Tags : \E m \in ImplsOf(i) : RegisterScoped(i, m, t)
    \/ \E i \in Interfaces, t \in Tags : ResolveSingleton(i, t)
    \/ \E i \in Interfaces, t \in Tags : ResolveTransient(i, t)
    \/ CreateScope
    \/ \E s \in LiveScopes : \E i \in Interfaces, t \in Tags : ResolveScoped(s, i, t)

Spec == Init /\ [][Next]_vars

\* ------------------------------------------------- scope and instance lifetime
\* the instances the services map of a live scope owns
HeldByLiveScope(inst) ==
    \E s \in LiveScopes : \E n \in DOMAIN scopes[s] : scopes[s][n] = inst

\* the caller copies its std::shared_ptr<Scope>
CopyScopeHandle(s) ==
    /\ scopeHolders[s] < MaxHandles
    /\ scopeHolders' = [scopeHolders EXCEPT ![s] = @ + 1]
    /\ last' = Call("CopyScopeHandle", "", "", "", s, Returned(NoInstance), 0)
    /\ UNCHANGED <<registry, scopes, constructed, scopeLog, weak, locked, destroyed,
                   threads>>

\* mutation of ReleaseScopeHandle: the scope is the one owner of its instances, the last
\* release destroys them whatever handles the callers hold
ReleaseScopeHandleDestroysAll(s) ==
    /\ scopeHolders' = [scopeHolders EXCEPT ![s] = @ - 1]
    /\ IF scopeHolders[s] = 1
       THEN /\ scopes' = [scopes EXCEPT ![s] = EmptyMap]
            /\ destroyed' = destroyed \cup {scopes[s][n] : n \in DOMAIN scopes[s]}
       ELSE UNCHANGED <<scopes, destroyed>>
    /\ last' = Call("ReleaseScopeHandle", "", "", "", s, Returned(NoInstance), 0)
    /\ UNCHANGED <<registry, constructed, scopeLog, weak, locked, threads>>

\* mutation of ReleaseScopeHandle: the scoped registrations go with the scope
ReleaseScopeHandleUnregisters(s) ==
    /\ scopeHolders' = [scopeHolders EXCEPT ![s] = @ - 1]
    /\ IF scopeHolders[s] = 1
       THEN /\ scopes' = [scopes EXCEPT ![s] = EmptyMap]
            /\ destroyed' = destroyed \cup
                    {scopes[s][n] : n \in {n \in DOMAIN scopes[s] : scopes[s][n] \notin locked}}
            /\ scopedServices' = EmptyMap
       ELSE UNCHANGED <<scopes, destroyed, scopedServices>>
    /\ last' = Call("ReleaseScopeHandle", "", "", "", s, Returned(NoInstance), 0)
    /\ UNCHANGED <<singletonServices, transientServices, constructed, scopeLog, weak,
                   locked, threads>>

\* mutation of ReleaseScopeHandle: the last release forgets the scope but leaves its
\* instances alive, as if another owner held them
ReleaseScopeHandleKeepsInstances(s) ==
    /\ scopeHolders' = [scopeHolders EXCEPT ![s] = @ - 1]
    /\ IF scopeHolders[s] = 1
       THEN scopes' = [scopes EXCEPT ![s] = EmptyMap]
       ELSE UNCHANGED scopes
    /\ last' = Call("ReleaseScopeHandle", "", "", "", s, Returned(NoInstance), 0)
    /\ UNCHANGED <<registry, constructed, scopeLog, weak, locked, destroyed, threads>>

\* a holder drops its std::shared_ptr<Scope>; the last one runs ~Scope, which destroys
\* the services map and with it the shared_ptr<void> of every entry
ReleaseScopeHandle(s) ==
    /\ scopeHolders' = [scopeHolders EXCEPT ![s] = @ - 1]
    /\ IF scopeHolders[s] = 1
       THEN /\ scopes' = [scopes EXCEPT ![s] = EmptyMap]
            /\ destroyed' = destroyed \cup
                    {scopes[s][n] : n \in {n \in DOMAIN scopes[s] : scopes[s][n] \notin locked}}
       ELSE UNCHANGED <<scopes, destroyed>>
    /\ last' = Call("ReleaseScopeHandle", "", "", "", s, Returned(NoInstance), 0)
    /\ UNCHANGED <<registry, constructed, scopeLog, weak, locked, threads>>

\* weak_ptr::lock on a reference ResolveScoped returned: an owning handle while the
\* instance lives, a null handle once it is destroyed
Lock(w) ==
    /\ IF w \in destroyed
       THEN /\ last' = Call("Lock", "", "", w.impl, w.id, Empty, 0)
            /\ UNCHANGED locked
       ELSE /\ last' = Call("Lock", "", "", w.impl, w.id, Returned(w), 0)
            /\ locked' = locked \cup {w}
    /\ UNCHANGED <<registry, scopes, constructed, scopeLog, scopeHolders, weak, destroyed,
                   threads>>

\* the caller drops the owning handle it got from lock; the instance dies with it
\* unless a live scope still owns it
Unlock(w) ==
    /\ locked' = locked \ {w}
    /\ destroyed' = IF HeldByLiveScope(w) THEN destroyed ELSE destroyed \cup {w}
    /\ last' = Call("Unlock", "", "", w.impl, w.id, Returned(w), 0)
    /\ UNCHANGED <<registry, scopes, constructed, scopeLog, scopeHolders, weak, threads>>

\* the scoped workflow of the examples with an implementation that has no dependency
\* (register, create a scope, resolve in it), then what the caller does with the scope
\* handle and with the references it got
NextLifetime ==
    \/ \E t \in Tags : RegisterScoped("ILogger", "Logger", t)
    \/ CreateScope
    \/ \E s \in LiveScopes : \E t \in Tags : ResolveScoped(s, "ILogger", t)
    \/ \E s \in LiveScopes : CopyScopeHandle(s)
    \/ \E s \in LiveScopes : ReleaseScopeHandle(s)
    \/ \E w \in weak : Lock(w)
    \/ \E w \in locked : Unlock(w)

SpecLifetime == Init /\ [][NextLifetime]_vars

\* ------------------------------------- RegisterSingleton called without a lock
\* Threads run RegisterSingleton on the one Container with nothing between them: the
\* steps of a call are its duplicate check, the creation of the holder, and the store,
\* each a whole map operation.

\* the finds of the duplicate check, and its throw
RaceCheck(t, typeName, impl, tag) ==
    /\ threads[t].pc = "idle"
    /\ threads' = [threads EXCEPT ![t] =
            IF HasService(singletonServices, typeName, tag)
            THEN [@ EXCEPT !.pc = "done", !.typeName = typeName, !.tag = tag,
                           !.impl = impl, !.outcome = "DuplicateRegistration"]
            ELSE [@ EXCEPT !.pc = "create", !.typeName = typeName, !.tag = tag,
                           !.impl = impl]]
    /\ UNCHANGED <<registry, scopes, constructed, scopeLog, last, scopeHolders, weak,
                   locked, destroyed>>

\* make_shared of the holder and SetCreator, which runs the creator
RaceCreate(t) ==
    /\ threads[t].pc = "create"
    /\ LET r == Creator(threads[t].impl, singletonServices, constructed)
       IN  IF r.outcome = "ok"
           THEN /\ constructed' = constructed + 1
                /\ threads' = [threads EXCEPT ![t].pc = "store", ![t].service = r.result]
           ELSE /\ threads' = [threads EXCEPT ![t].pc = "done",
                                              ![t].outcome = r.outcome,
                                              ![t].what = r.what]
                /\ UNCHANGED constructed
    /\ UNCHANGED <<registry, scopes, scopeLog, last, scopeHolders, weak, locked, destroyed>>

\* mutation of RaceStore: the store checks again and refuses a key bound since the
\* check, as a registration made under a lock would
RaceStoreChecksAgain(t) ==
    /\ threads[t].pc = "store"
    /\ IF HasService(singletonServices, threads[t].typeName, threads[t].tag)
       THEN /\ threads' = [threads EXCEPT ![t].pc = "done",
                                          ![t].outcome = "DuplicateRegistration"]
            /\ UNCHANGED singletonServices
       ELSE /\ singletonServices' = Insert(singletonServices, threads[t].typeName,
                                           threads[t].tag,
                                           [instance |-> threads[t].service])
            /\ threads' = [threads EXCEPT ![t].pc = "done", ![t].outcome = "ok"]
    /\ UNCHANGED <<transientServices, scopedServices, scopes, constructed, scopeLog, last,
                   scopeHolders, weak, locked, destroyed>>

\* singletonServices[typeName][tag] = service. On a slot still unbound this is the
\* store of a sequential call. On a slot another thread bound since the check the
\* access is unsynchronised, a data race, and either holder may be the one the map
\* ends with: the assignment replaces the earlier holder, or it is lost.
RaceStore(t) ==
    /\ threads[t].pc = "store"
    /\ LET typeName == threads[t].typeName
           tag == threads[t].tag
           own == [instance |-> threads[t].service]
       IN  IF ~HasService(singletonServices, typeName, tag)
           THEN /\ singletonServices' = Insert(singletonServices, typeName, tag, own)
                /\ threads' = [threads EXCEPT ![t].pc = "done", ![t].outcome = "ok"]
           ELSE \/ /\ singletonServices' = Insert(singletonServices, typeName, tag, own)
                   /\ threads' = [threads EXCEPT
                          ![t].pc = "done", ![t].outcome = "ok",
                          ![t].replaced = singletonServices[typeName][tag].instance]
                \/ /\ UNCHANGED singletonServices
                   /\ threads' = [threads EXCEPT ![t].pc = "done", ![t].outcome = "ok"]
    /\ UNCHANGED <<transientServices, scopedServices, scopes, constructed, scopeLog, last,
                   scopeHolders, weak, locked, destroyed>>

NextRace ==
    \/ \E t \in Threads : \E i \in Interfaces, tg \in Tags : \E m \in ImplsOf(i) :
           RaceCheck(t, i, m, tg)
    \/ \E t \in Threads : RaceCreate(t)
    \/ \E t \in Threads : RaceStore(t)

SpecRace == Init /\ [][NextRace]_vars

\* ----------------------------------------- ResolveScoped called without a lock
\* The main thread registers scoped services and creates scopes, then threads run
\* ResolveScoped on the one Container with nothing between them. The steps of a call
\* are the scope check, the lookup of the holder, the factory call, the store into the
\* scope and the return, which drops the call's own shared_ptr newService.

\* the instances a call still holds in its local newService
HeldByCall(inst) == \E t \in Threads : threads[t].pc = "return" /\ threads[t].service = inst

\* the calls the main thread makes before it starts the threads
ScopedRaceSetup ==
    /\ \A t \in Threads : threads[t].pc = "idle"
    /\ \/ \E tg \in Tags : RegisterScoped("ILogger", "Logger", tg)
       \/ CreateScope

\* scope->services.count(typeName), and the return of the empty reference
ScopedRaceCheck(t, s, typeName, tag) ==
    /\ threads[t].pc = "idle"
    /\ threads' = [threads EXCEPT ![t] =
            IF ScopeHas(scopes[s], typeName, tag)
            THEN [@ EXCEPT !.pc = "done", !.scope = s, !.typeName = typeName, !.tag = tag,
                           !.outcome = "empty"]
            ELSE [@ EXCEPT !.pc = "lookup", !.scope = s, !.typeName = typeName,
                           !.tag = tag]]
    /\ UNCHANGED <<registry, scopes, constructed, scopeLog, last, scopeHolders, weak,
                   locked, destroyed>>

\* the finds in scopedServices, and their throw
ScopedRaceLookup(t) ==
    /\ threads[t].pc = "lookup"
    /\ LET typeName == threads[t].typeName
           tag == threads[t].tag
       IN  threads' = [threads EXCEPT ![t] =
               IF HasService(scopedServices, typeName, tag)
               THEN [@ EXCEPT !.pc = "create", !.impl = scopedServices[typeName][tag].impl]
               ELSE [@ EXCEPT !.pc = "done", !.outcome = "ServiceNotRegistered",
                              !.what = typeName]]
    /\ UNCHANGED <<registry, scopes, constructed, scopeLog, last, scopeHolders, weak,
                   locked, destroyed>>

\* service->CreateService(), the factory call
ScopedRaceCreate(t) ==
    /\ threads[t].pc = "create"
    /\ LET r == Creator(threads[t].impl, singletonServices, constructed)
       IN  IF r.outcome = "ok"
           THEN /\ constructed' = constructed + 1
                /\ threads' = [threads EXCEPT ![t].pc = "store", ![t].service = r.result]
           ELSE /\ threads' = [threads EXCEPT ![t].pc = "done",
                                              ![t].outcome = r.outcome,
                                              ![t].what = r.what]
                /\ UNCHANGED constructed
    /\ UNCHANGED <<registry, scopes, scopeLog, last, scopeHolders, weak, locked, destroyed>>

\* mutation of ScopedRaceStore: the store checks the scope again and gives up, with
\* the empty reference, on a slot populated since the check
ScopedRaceStoreChecksAgain(t) ==
    /\ threads[t].pc = "store"
    /\ IF threads[t].typeName \in DOMAIN scopes[threads[t].scope]
       THEN /\ threads' = [threads EXCEPT ![t].pc = "done", ![t].outcome = "empty"]
            /\ destroyed' = destroyed \cup {threads[t].service}
            /\ UNCHANGED scopes
       ELSE /\ scopes' = [scopes EXCEPT ![threads[t].scope] =
                              ScopeStore(@, threads[t].typeName, threads[t].service)]
            /\ threads' = [threads EXCEPT ![t].pc = "return"]
            /\ UNCHANGED destroyed
    /\ UNCHANGED <<registry, constructed, scopeLog, last, scopeHolders, weak, locked>>

\* scope->services[typeName] = newService. On a slot still unpopulated this is the
\* store of a sequential call. On a slot another thread populated since the check the
\* access is unsynchronised, a data race, and either instance may be the one the scope
\* ends with: the assignment overwrites the slot, whose earlier instance dies unless
\* its call still holds it, or the write is lost.
ScopedRaceStore(t) ==
    /\ threads[t].pc = "store"
    /\ LET s == threads[t].scope
           typeName == threads[t].typeName
       IN  IF typeName \notin DOMAIN scopes[s]
           THEN /\ scopes' = [scopes EXCEPT ![s] = ScopeStore(@, typeName, threads[t].service)]
                /\ threads' = [threads EXCEPT ![t].pc = "return"]
                /\ UNCHANGED destroyed
           ELSE \/ /\ scopes' = [scopes EXCEPT ![s] =
                                     ScopeStore(@, typeName, threads[t].service)]
                   /\ threads' = [threads EXCEPT ![t].pc = "return",
                                                 ![t].replaced = scopes[s][typeName]]
                   /\ destroyed' = IF HeldByCall(scopes[s][typeName])
                                   THEN destroyed
                                   ELSE destroyed \cup {scopes[s][typeName]}
                \/ /\ threads' = [threads EXCEPT ![t].pc = "return"]
                   /\ UNCHANGED <<scopes, destroyed>>
    /\ UNCHANGED <<registry, constructed, scopeLog, last, scopeHolders, weak, locked>>

\* return newService: the caller gets the weak reference and the call's own
\* shared_ptr goes; the instance goes with it unless the scope holds it
ScopedRaceReturn(t) ==
    /\ threads[t].pc = "return"
    /\ threads' = [threads EXCEPT ![t].pc = "done", ![t].outcome = "ok"]
    /\ weak' = weak \cup {threads[t].service}
    /\ destroyed' = IF HeldByLiveScope(threads[t].service)
                    THEN destroyed
                    ELSE destroyed \cup {threads[t].service}
    /\ UNCHANGED <<registry, scopes, constructed, scopeLog, last, scopeHolders, locked>>

NextRaceScoped ==
    \/ ScopedRaceSetup
    \/ \E t \in Threads : \E s \in LiveScopes : \E tg \in Tags :
           ScopedRaceCheck(t, s, "ILogger", tg)
    \/ \E t \in Threads : ScopedRaceLookup(t)
    \/ \E t \in Threads : ScopedRaceCreate(t)
    \/ \E t \in Threads : ScopedRaceStore(t)
    \/ \E t \in Threads : ScopedRaceReturn(t)

SpecRaceScoped == Init /\ [][NextRaceScoped]_vars

\* ------------------------------------------------------------ the demo program
\* main runs the five examples in order on the one Container::Instance(). The thread
\* of main is thread 1; stmt is the statement it is at and pc its step in it.

\* typeid(T).name() of a type of an example: its namespace is part of the name
TypeNameUnqualified(namespace, name) == name
TypeName(namespace, name) == namespace \o "::" \o name

\* a call of the container, and what main does with a handle it holds
ContainerCall(op, namespace, interface, tag, implementation) ==
    [op |-> op, typeName |-> TypeName(namespace, interface), tag |-> tag,
     impl |-> IF implementation = "" THEN "" ELSE namespace \o "::" \o implementation]
HandleUse(op) == [op |-> op, typeName |-> "", tag |-> "", impl |-> ""]

\* CreateScope, ResolveScoped, lock() in an if, and the end of the block or function
ScopedUse(namespace, interface) ==
    << ContainerCall("CreateScope", namespace, "", "", ""),
       ContainerCall("ResolveScoped", namespace, interface, "", ""),
       HandleUse("Lock"), HandleUse("Unlock"), HandleUse("ReleaseScope") >>

RunSimpleService ==
    << ContainerCall("RegisterSingleton", "SimpleExample", "IService", "", "Service"),
       ContainerCall("RegisterTransient", "SimpleExample", "IService", "", "Service"),
       ContainerCall("RegisterScoped", "SimpleExample", "IService", "", "Service"),
       ContainerCall("ResolveSingleton", "SimpleExample", "IService", "", ""),
       ContainerCall("ResolveTransient", "SimpleExample", "IService", "", "") >>
    \o ScopedUse("SimpleExample", "IService")

RunSubDependency ==
    << ContainerCall("RegisterSingleton", "SubDependencies", "ILogger", "", "Logger"),
       ContainerCall("RegisterTransient", "SubDependencies", "ILogger", "", "Logger"),
       ContainerCall("RegisterScoped", "SubDependencies", "ILogger", "", "Logger"),
       ContainerCall("RegisterSingleton", "SubDependencies", "IService", "", "Service"),
       ContainerCall("RegisterTransient", "SubDependencies", "IService", "", "Service"),
       ContainerCall("RegisterScoped", "SubDependencies", "IService", "", "Service"),
       ContainerCall("ResolveSingleton", "SubDependencies", "IService", "", ""),
       ContainerCall("ResolveTransient", "SubDependencies", "IService", "", "") >>
    \o ScopedUse("SubDependencies", "IService")

RunAdvanceExample ==
    << ContainerCall("RegisterSingleton", "AdvancedExample", "ILogger", "", "Logger"),
       ContainerCall("RegisterScoped", "AdvancedExample", "IDatabase", "", "Database"),
       ContainerCall("RegisterTransient", "AdvancedExample", "IService", "", "Service"),
       ContainerCall("RegisterTransient", "AdvancedExample", "IService", "Service2",
                     "Service2"),
       ContainerCall("ResolveTransient", "AdvancedExample", "IService", "", "") >>
    \o ScopedUse("AdvancedExample", "IDatabase")
    \o << ContainerCall("ResolveTransient", "AdvancedExample", "IService", "Service2", "") >>
    \o ScopedUse("AdvancedExample", "IDatabase")

RunWebServerExample ==
    << ContainerCall("RegisterSingleton", "WebServerExample", "ILogger", "", "Logger"),
       ContainerCall("RegisterSingleton", "WebServerExample", "IDatabase", "", "Database"),
       ContainerCall("RegisterSingleton", "WebServerExample", "IController", "Home",
                     "HomeController"),
       ContainerCall("RegisterSingleton", "WebServerExample", "IController", "User",
                     "UserController"),
       ContainerCall("ResolveSingleton", "WebServerExample", "IController", "Home", ""),
       ContainerCall("ResolveSingleton", "WebServerExample", "IController", "User", "") >>

RunAdvancedWebServerExample ==
    << ContainerCall("RegisterSingleton", "AdvancedWebExample", "ILogger", "", "Logger"),
       ContainerCall("RegisterTransient", "AdvancedWebExample", "IDatabase", "MySQL",
                     "MySQLDatabase"),
       ContainerCall("RegisterTransient", "AdvancedWebExample", "IDatabase", "PostgreSQL",
                     "PostgreSQLDatabase"),
       ContainerCall("RegisterTransient", "AdvancedWebExample", "IController", "Home",
                     "HomeController"),
       ContainerCall("RegisterTransient", "AdvancedWebExample", "IController", "User",
                     "UserController"),
       ContainerCall("ResolveTransient", "AdvancedWebExample", "IController", "Home", ""),
       ContainerCall("ResolveTransient", "AdvancedWebExample", "IController", "User", ""),
       ContainerCall("ResolveTransient", "AdvancedWebExample", "IDatabase", "MySQL", ""),
       ContainerCall("ResolveTransient", "AdvancedWebExample", "IDatabase", "PostgreSQL",
                     "") >>

main ==
    RunSimpleService \o RunSubDependency \o RunAdvanceExample \o RunWebServerExample
        \o RunAdvancedWebServerExample

Main == 1

\* the statement main is at, and the partition its call works on
Statement == main[threads[Main].stmt]
Partition(op) ==
    IF op \in {"RegisterSingleton", "ResolveSingleton"} THEN singletonServices
    ELSE IF op \in {"RegisterTransient", "ResolveTransient"} THEN transientServices
    ELSE scopedServices

\* the first step of a statement
FirstStep(op) ==
    IF op \in {"RegisterSingleton", "RegisterTransient", "RegisterScoped", "ResolveScoped"}
    THEN "check"
    ELSE IF op \in {"ResolveSingleton", "ResolveTransient"} THEN "lookup"
    ELSE IF op = "CreateScope" THEN "store"
    ELSE "run"

\* main goes on to its next statement, or returns
NextStatement(thread) ==
    IF thread.stmt = Len(main)
    THEN [thread EXCEPT !.pc = "exit", !.stmt = Len(main) + 1]
    ELSE [thread EXCEPT !.pc = FirstStep(main[thread.stmt + 1].op), !.stmt = thread.stmt + 1]

\* the call throws: nothing catches it and the program terminates
Terminate(thread, r) ==
    [thread EXCEPT !.pc = "terminated", !.outcome = r.outcome, !.what = r.what]

DemoCalled(r, calls) ==
    Call(Statement.op, Statement.typeName, Statement.tag, Statement.impl,
         IF Statement.op = "ResolveScoped" THEN Len(scopes) ELSE 0, r, calls)

DemoStart ==
    /\ threads[Main].pc = "idle"
    /\ threads' = [threads EXCEPT ![Main] = NextStatement(@)]
    /\ UNCHANGED <<registry, scopes, constructed, scopeLog, last, scopeHolders, weak,
                   locked, destroyed>>

\* the duplicate check of Register*, the scope check of ResolveScoped
DemoCheck ==
    /\ threads[Main].pc = "check"
    /\ IF Statement.op = "ResolveScoped"
       THEN IF ScopeHas(scopes[Len(scopes)], Statement.typeName, Statement.tag)
            THEN /\ threads' = [threads EXCEPT
                        ![Main] = NextStatement([@ EXCEPT !.service = NoInstance])]
                 /\ last' = DemoCalled(Empty, 0)
            ELSE /\ threads' = [threads EXCEPT ![Main].pc = "lookup"]
                 /\ UNCHANGED last
       ELSE IF HasService(Partition(Statement.op), Statement.typeName, Statement.tag)
            THEN /\ threads' = [threads EXCEPT ![Main] =
                        Terminate(@, Thrown("DuplicateRegistration", ""))]
                 /\ last' = DemoCalled(Thrown("DuplicateRegistration", ""), 0)
            ELSE /\ threads' = [threads EXCEPT ![Main].pc =
                        IF Statement.op = "RegisterSingleton" THEN "create" ELSE "store"]
                 /\ UNCHANGED last
    /\ UNCHANGED <<registry, scopes, constructed, scopeLog, scopeHolders, weak, locked,
                   destroyed>>

\* the finds of Resolve* in its partition
DemoLookup ==
    /\ threads[Main].pc = "lookup"
    /\ IF ~HasService(Partition(Statement.op), Statement.typeName, Statement.tag)
       THEN /\ threads' = [threads EXCEPT ![Main] =
                   Terminate(@, Thrown("ServiceNotRegistered", Statement.typeName))]
            /\ last' = DemoCalled(Thrown("ServiceNotRegistered", Statement.typeName), 0)
       ELSE /\ threads' = [threads EXCEPT ![Main].pc =
                   IF Statement.op = "ResolveSingleton" THEN "return" ELSE "create"]
            /\ UNCHANGED last
    /\ UNCHANGED <<registry, scopes, constructed, scopeLog, scopeHolders, weak, locked,
                   destroyed>>

\* the implementation the creator of the statement's call makes
DemoImpl ==
    IF Statement.op = "RegisterSingleton" THEN Statement.impl
    ELSE Partition(Statement.op)[Statement.typeName][Statement.tag].impl

\* the factory call: SetCreator in RegisterSingleton, CreateService in ResolveTransient
\* and ResolveScoped
DemoCreate ==
    /\ threads[Main].pc = "create"
    /\ LET r == Creator(DemoImpl, singletonServices, constructed)
       IN  IF r.outcome = "ok"
           THEN /\ constructed' = constructed + 1
                /\ threads' = [threads EXCEPT
                       ![Main].pc = IF Statement.op = "ResolveTransient" THEN "return"
                                                                        ELSE "store",
                       ![Main].service = r.result]
                /\ UNCHANGED last
           ELSE /\ threads' = [threads EXCEPT ![Main] = Terminate(@, r)]
                /\ last' = DemoCalled(r, 1)
                /\ UNCHANGED constructed
    /\ UNCHANGED <<registry, scopes, scopeLog, scopeHolders, weak, locked, destroyed>>

\* the write of the call: the holder into its partition, the instance into the scope,
\* the new Scope
DemoStore ==
    /\ threads[Main].pc = "store"
    /\ LET op == Statement.op
           typeName == Statement.typeName
           tag == Statement.tag
       IN  /\ singletonServices' =
                  IF op = "RegisterSingleton"
                  THEN Insert(singletonServices, typeName, tag,
                              [instance |-> threads[Main].service])
                  ELSE singletonServices
           /\ transientServices' =
                  IF op = "RegisterTransient"
                  THEN Insert(transientServices, typeName, tag, [impl |-> Statement.impl])
                  ELSE transientServices
           /\ scopedServices' =
                  IF op = "RegisterScoped"
                  THEN Insert(scopedServices, typeName, tag, [impl |-> Statement.impl])
                  ELSE scopedServices
           /\ scopes' =
                  IF op = "ResolveScoped"
                  THEN [scopes EXCEPT ![Len(scopes)] =
                           ScopeStore(@, typeName, threads[Main].service)]
                  ELSE IF op = "CreateScope" THEN Append(scopes, EmptyMap)
                  ELSE scopes
           /\ scopeLog' =
                  IF op = "ResolveScoped"
                  THEN [scopeLog EXCEPT ![Len(scopes)] = @ \cup {<<typeName, tag>>}]
                  ELSE IF op = "CreateScope" THEN Append(scopeLog, {})
                  ELSE scopeLog
           /\ scopeHolders' =
                  IF op = "CreateScope" THEN Append(scopeHolders, 1) ELSE scopeHolders
           /\ IF op = "ResolveScoped"
              THEN /\ threads' = [threads EXCEPT ![Main].pc = "return"]
                   /\ UNCHANGED last
              ELSE /\ threads' = [threads EXCEPT ![Main] = NextStatement(@)]
                   /\ last' = DemoCalled(Returned(NoInstance),
                                         IF op = "RegisterSingleton" THEN 1 ELSE 0)
    /\ UNCHANGED <<constructed, weak, locked, destroyed>>

\* the return of Resolve*: main gets the singleton's instance, the new transient, or
\* the weak reference to the scoped instance
DemoReturn ==
    /\ threads[Main].pc = "return"
    /\ LET result ==
               IF Statement.op = "ResolveSingleton"
               THEN singletonServices[Statement.typeName][Statement.tag].instance
               ELSE threads[Main].service
       IN  /\ last' = DemoCalled(Returned(result),
                                 IF Statement.op = "ResolveSingleton" THEN 0 ELSE 1)
           /\ threads' = [threads EXCEPT
                  ![Main] = NextStatement([@ EXCEPT !.service = result])]
           /\ weak' = IF Statement.op = "ResolveScoped" THEN weak \cup {result} ELSE weak
    /\ UNCHANGED <<registry, scopes, constructed, scopeLog, scopeHolders, locked, destroyed>>

\* what main does with the reference and the scope it holds: lock() in the if, the end
\* of the if, and the end of the block or function that declared the scope
DemoRun ==
    /\ threads[Main].pc = "run"
    /\ LET w == threads[Main].service
           s == Len(scopes)
       IN  /\ locked' = IF Statement.op = "Lock" /\ w /= NoInstance /\ w \notin destroyed
                       THEN locked \cup {w}
                       ELSE IF Statement.op = "Unlock" THEN locked \ {w}
                       ELSE locked
           /\ scopeHolders' = IF Statement.op = "ReleaseScope"
                             THEN [scopeHolders EXCEPT ![s] = 0]
                             ELSE scopeHolders
           /\ scopes' = IF Statement.op = "ReleaseScope"
                        THEN [scopes EXCEPT ![s] = EmptyMap]
                        ELSE scopes
           /\ destroyed' =
                  IF Statement.op = "ReleaseScope"
                  THEN destroyed \cup
                         {scopes[s][n] : n \in {n \in DOMAIN scopes[s] :
                                                    scopes[s][n] \notin locked}}
                  ELSE IF Statement.op = "Unlock" /\ w \in locked /\ ~HeldByLiveScope(w)
                  THEN destroyed \cup {w}
                  ELSE destroyed
           /\ last' = Call(Statement.op, "", "", w.impl, IF Statement.op = "ReleaseScope"
                                                         THEN s ELSE w.id,
                           IF Statement.op = "Lock" /\ (w = NoInstance \/ w \in destroyed)
                           THEN Empty ELSE Returned(w), 0)
    /\ threads' = [threads EXCEPT ![Main] = NextStatement(@)]
    /\ UNCHANGED <<registry, constructed, scopeLog, weak>>

NextDemo ==
    \/ DemoStart
    \/ DemoCheck
    \/ DemoLookup
    \/ DemoCreate
    \/ DemoStore
    \/ DemoReturn
    \/ DemoRun

SpecDemo == Init /\ [][NextDemo]_vars

\* ============================================================== properties
RegisterOps == {"RegisterSingleton", "RegisterTransient", "RegisterScoped"}
ResolveOps == {"ResolveSingleton", "ResolveTransient", "ResolveScoped"}

\* the partition an operation works on, among the given three
PartitionOf(op, singletons, transients, scopeds) ==
    IF op \in {"RegisterSingleton", "ResolveSingleton"} THEN singletons
    ELSE IF op \in {"RegisterTransient", "ResolveTransient"} THEN transients
    ELSE scopeds

\* the implementation a partition binds a key to
BoundImpl(op, map, typeName, tag) ==
    IF op \in {"RegisterSingleton", "ResolveSingleton"}
    THEN map[typeName][tag].instance.impl
    ELSE map[typeName][tag].impl

\* the identities the container holds a reference to: singleton instances and scope entries
StoredIds(singletons, scps) ==
    {singletons[k[1]][k[2]].instance.id :
        k \in {k \in Interfaces \X Tags : HasService(singletons, k[1], k[2])}}
    \cup UNION {{scps[s][n].id : n \in DOMAIN scps[s]} : s \in DOMAIN scps}

\* the implementation's constructor completes with the singletons registered now
CtorCompletes(impl) == RunCtor(CtorResolves(impl), 1, singletonServices).outcome = "ok"

\* C1: a Register* call for a key already present in its partition fails with
\* DuplicateRegistration and leaves all three partitions unchanged, so the key
\* still resolves to the first registration (for a singleton, to the same instance).
C1_DuplicateRegistrationIsNoOp ==
    [][(/\ last'.op \in RegisterOps
        /\ HasService(PartitionOf(last'.op, singletonServices, transientServices,
                                  scopedServices), last'.typeName, last'.tag))
       => /\ last'.outcome = "DuplicateRegistration"
          /\ last'.factoryCalls = 0
          /\ singletonServices' = singletonServices
          /\ transientServices' = transientServices
          /\ scopedServices' = scopedServices
          /\ SingletonLookup(singletonServices', last'.typeName, last'.tag)
               = SingletonLookup(singletonServices, last'.typeName, last'.tag)]_vars

\* a duplicate RegisterSingleton with another implementation than the stored one failed
C1_Witness ==
    /\ last.op = "RegisterSingleton"
    /\ last.outcome = "DuplicateRegistration"
    /\ singletonServices[last.typeName][last.tag].instance.impl /= last.impl

\* C2: once RegisterSingleton has succeeded for a key, the instance stored for the key
\* is the one the factory constructed during that call, no later step changes it, and
\* every ResolveSingleton of the key returns exactly that instance.
C2_SingletonIdentityFixedAtRegistration ==
    [][/\ (last'.op = "RegisterSingleton" /\ last'.outcome = "ok")
            => /\ ~HasService(singletonServices, last'.typeName, last'.tag)
               /\ constructed' = constructed + 1
               /\ HasService(singletonServices', last'.typeName, last'.tag)
               /\ singletonServices'[last'.typeName][last'.tag].instance
                    = Instance(constructed + 1, last'.impl)
       /\ \A i \in Interfaces, t \in Tags :
            HasService(singletonServices, i, t)
            => /\ HasService(singletonServices', i, t)
               /\ singletonServices'[i][t].instance = singletonServices[i][t].instance
       /\ (/\ last'.op = "ResolveSingleton"
           /\ HasService(singletonServices, last'.typeName, last'.tag))
            => /\ last'.outcome = "ok"
               /\ last'.result = singletonServices[last'.typeName][last'.tag].instance
               /\ last'.result /= NoInstance
               /\ constructed' = constructed]_vars

\* ResolveSingleton returned the first instance after another instance was constructed
C2_Witness ==
    /\ last.op = "ResolveSingleton"
    /\ last.outcome = "ok"
    /\ last.result.id = 1
    /\ constructed = 2

\* C3: a successful ResolveTransient invokes the factory once and returns an instance
\* whose identity is none of those constructed before, and the container stores no
\* reference to it in any partition or scope.
C3_TransientIsFreshAndUnowned ==
    [][(last'.op = "ResolveTransient" /\ last'.outcome = "ok")
       => /\ last'.factoryCalls = 1
          /\ constructed' = constructed + 1
          /\ last'.result /= NoInstance
          /\ last'.result.id \notin 0..constructed
          /\ StoredIds(singletonServices, scopes) \subseteq 1..constructed
          /\ last'.result.id \notin StoredIds(singletonServices', scopes')
          /\ UNCHANGED <<registry, scopes>>]_vars

\* the second of two transient resolutions returned
C3_Witness ==
    /\ last.op = "ResolveTransient"
    /\ last.outcome = "ok"
    /\ last.result.id = 2

\* C4: a Resolve* for a key absent from its partition fails with ServiceNotRegistered,
\* whatever the scope holds, and changes neither a partition nor a scope.
C4_UnregisteredResolveFails ==
    [][(/\ last'.op \in ResolveOps
        /\ ~HasService(PartitionOf(last'.op, singletonServices, transientServices,
                                   scopedServices), last'.typeName, last'.tag))
       => /\ last'.outcome = "ServiceNotRegistered"
          /\ last'.what = last'.typeName
          /\ UNCHANGED <<registry, scopes>>]_vars

\* C5: after a successful Register* of (Interface, Implementation, tag) the matching
\* Resolve* of the key yields a valid instance of that implementation (its constructor
\* completing); for ResolveScoped, against a scope that has not yet resolved the key.
C5_RegisterThenResolveYieldsImpl ==
    [][/\ (last'.op \in RegisterOps /\ last'.outcome = "ok")
            => LET map == PartitionOf(last'.op, singletonServices', transientServices',
                                      scopedServices')
               IN  /\ HasService(map, last'.typeName, last'.tag)
                   /\ BoundImpl(last'.op, map, last'.typeName, last'.tag) = last'.impl
       /\ LET map == PartitionOf(last'.op, singletonServices, transientServices,
                                 scopedServices)
          IN  (/\ last'.op \in ResolveOps
               /\ HasService(map, last'.typeName, last'.tag)
               /\ CtorCompletes(BoundImpl(last'.op, map, last'.typeName, last'.tag))
               /\ last'.op = "ResolveScoped"
                    => <<last'.typeName, last'.tag>> \notin scopeLog[last'.scope])
              => /\ last'.outcome = "ok"
                 /\ last'.result /= NoInstance
                 /\ last'.result.impl
                      = BoundImpl(last'.op, map, last'.typeName, last'.tag)]_vars

\* C6: scope entries are keyed by (interface, tag): in a scope that resolved (I, tagA),
\* a first ResolveScoped of a registered (I, tagB), tagB /= tagA, returns a valid
\* reference to a new instance of tagB's implementation and the scope gains an entry.
C6_ScopeKeyedByTypeAndTag ==
    [][(/\ last'.op = "ResolveScoped"
        /\ HasService(scopedServices, last'.typeName, last'.tag)
        /\ CtorCompletes(scopedServices[last'.typeName][last'.tag].impl)
        /\ <<last'.typeName, last'.tag>> \notin scopeLog[last'.scope]
        /\ \E tagA \in Tags \ {last'.tag} :
              <<last'.typeName, tagA>> \in scopeLog[last'.scope])
       => /\ last'.outcome = "ok"
          /\ last'.result = Instance(constructed + 1,
                                     scopedServices[last'.typeName][last'.tag].impl)
          /\ Cardinality(scopeLog'[last'.scope])
               = Cardinality(scopeLog[last'.scope]) + 1]_vars

C8_ScopedInstanceSharedWithinScope ==
    (/\ last.op = "ResolveScoped"
     /\ <<last.typeName, last.tag>> \in scopeLog[last.scope])
    => /\ last.result /= NoInstance
       /\ last.result = scopes[last.scope][last.typeName]

\* C9: CreateScope returns a new scope with no entries; ResolveScoped against one scope
\* changes no entry of another; and when a scope first resolves a registered key that
\* another scope has resolved too, it gets a valid reference to a distinct instance.
C9_ScopesIndependent ==
    [][/\ last'.op = "CreateScope"
            => /\ scopes' = Append(scopes, EmptyMap)
               /\ last'.scope = Len(scopes')
       /\ last'.op = "ResolveScoped"
            => /\ DOMAIN scopes' = DOMAIN scopes
               /\ \A o \in DOMAIN scopes \ {last'.scope} : scopes'[o] = scopes[o]
       /\ (/\ last'.op = "ResolveScoped"
           /\ HasService(scopedServices, last'.typeName, last'.tag)
           /\ CtorCompletes(scopedServices[last'.typeName][last'.tag].impl)
           /\ <<last'.typeName, last'.tag>> \notin scopeLog[last'.scope]
           /\ \E o \in DOMAIN scopes \ {last'.scope} :
                 <<last'.typeName, last'.tag>> \in scopeLog[o])
            => /\ last'.outcome = "ok"
               /\ last'.result /= NoInstance
               /\ \A o \in DOMAIN scopes \ {last'.scope} :
                     \A n \in DOMAIN scopes[o] : scopes[o][n].id /= last'.result.id]_vars

\* C10: tags partition the namespace of a partition: a resolution of (I, t) that returns
\* an instance returns one of the implementation registered under exactly (I, t), and
\* resolving a tag not registered for I fails although I is registered under other tags.
C10_TagsPartitionNamespace ==
    LET map == PartitionOf(last.op, singletonServices, transientServices, scopedServices)
    IN  last.op \in ResolveOps
        => /\ last.outcome = "ok"
                => /\ HasService(map, last.typeName, last.tag)
                   /\ last.result.impl = BoundImpl(last.op, map, last.typeName, last.tag)
           /\ (/\ ~HasService(map, last.typeName, last.tag)
               /\ \E t \in Tags \ {last.tag} : HasService(map, last.typeName, t))
                => last.outcome = "ServiceNotRegistered"

\* 1 when the singleton partition binds the key, else 0
Bound(singletons, typeName, tag) == IF HasService(singletons, typeName, tag) THEN 1 ELSE 0

\* C11: a singleton key's factory runs once, in the successful RegisterSingleton, and
\* never in ResolveSingleton; RegisterTransient and RegisterScoped run no factory. So
\* every step constructs, for each singleton key, exactly as many instances as the key
\* gains bindings: from the empty container on, 1 for a registered key and 0 otherwise.
C11_SingletonFactoryRunsOnceAtRegistration ==
    [][/\ (last'.op = "RegisterSingleton" /\ last'.outcome = "ok")
            => (last'.factoryCalls = 1 /\ constructed' = constructed + 1)
       /\ last'.op \in {"ResolveSingleton", "RegisterTransient", "RegisterScoped"}
            => (last'.factoryCalls = 0 /\ constructed' = constructed)
       /\ \A i \in Interfaces, t \in Tags :
            LET built == IF /\ last'.op \in {"RegisterSingleton", "ResolveSingleton"}
                            /\ last'.typeName = i
                            /\ last'.tag = t
                         THEN constructed' - constructed
                         ELSE 0
            IN  Bound(singletonServices, i, t) + built
                  = Bound(singletonServices', i, t)]_vars

\* two singletons are registered, nothing else was constructed, and one was resolved
C11_Witness ==
    /\ last.op = "ResolveSingleton"
    /\ last.outcome = "ok"
    /\ last.factoryCalls = 0
    /\ HolderCount(singletonServices) = 2
    /\ constructed = 2

\* the singleton keys an implementation's constructor resolves that are not registered
MissingDeps(impl, singletons) ==
    {n \in DOMAIN CtorResolves(impl) :
        ~HasService(singletons, CtorResolves(impl)[n][1], CtorResolves(impl)[n][2])}

\* C12: RegisterSingleton of an unbound key with an implementation whose constructor
\* resolves an unregistered singleton fails with that ServiceNotRegistered and binds
\* nothing; once the constructor's dependencies are registered the same call succeeds
\* and binds the key.
C12_FailedSingletonRegistrationBindsNothing ==
    [][(/\ last'.op = "RegisterSingleton"
        /\ ~HasService(singletonServices, last'.typeName, last'.tag))
       => LET missing == MissingDeps(last'.impl, singletonServices)
          IN  IF missing /= {}
              THEN /\ last'.outcome = "ServiceNotRegistered"
                   /\ \E n \in missing : last'.what = CtorResolves(last'.impl)[n][1]
                   /\ ~HasService(singletonServices', last'.typeName, last'.tag)
                   /\ UNCHANGED <<registry, constructed>>
              ELSE /\ last'.outcome = "ok"
                   /\ HasService(singletonServices', last'.typeName, last'.tag)
                   /\ singletonServices'[last'.typeName][last'.tag].instance.impl
                        = last'.impl]_vars

\* RegisterSingleton<IService, Service> failed on the unregistered ILogger singleton
C12_Witness ==
    /\ last.op = "RegisterSingleton"
    /\ last.outcome = "ServiceNotRegistered"
    /\ last.what = "ILogger"
    /\ last.typeName = "IService"
    /\ ~HasService(singletonServices, last.typeName, last.tag)

\* the reference a Lock or Unlock call was made on
LastRef == Instance(last.scope, last.impl)

\* C13: a scope and the instances it holds stay alive while a holder of the scope handle
\* exists; the release of the last handle destroys, in that step, every instance of the
\* scope that no owning handle keeps, and from then on a reference ResolveScoped returned
\* for it upgrades to nothing.
C13_ScopeOwnsInstancesUntilLastRelease ==
    [][/\ \A s \in DOMAIN scopes :
            scopeHolders'[s] > 0
                => /\ \A n \in DOMAIN scopes[s] :
                        n \in DOMAIN scopes'[s] /\ scopes'[s][n] = scopes[s][n]
                   /\ \A n \in DOMAIN scopes'[s] : scopes'[s][n] \notin destroyed'
       /\ \A s \in DOMAIN scopes :
            (scopeHolders[s] > 0 /\ scopeHolders'[s] = 0)
                => /\ last'.op = "ReleaseScopeHandle" /\ last'.scope = s
                   /\ \A n \in DOMAIN scopes[s] :
                        scopes[s][n] \notin locked => scopes[s][n] \in destroyed'
       /\ (last'.op = "Lock" /\ Instance(last'.scope, last'.impl) \in destroyed)
            => /\ last'.outcome = "empty"
               /\ Instance(last'.scope, last'.impl) \notin locked']_vars

C13_Witness ==
    /\ last.op = "Lock" /\ last.outcome = "empty"
    /\ LastRef \in weak /\ LastRef \in destroyed
    /\ \E s \in DOMAIN scopes : scopeHolders[s] = 0 /\ <<"ILogger", "">> \in scopeLog[s]

PartitionBefore(op) == PartitionOf(op, singletonServices, transientServices, scopedServices)
PartitionAfter(op) == PartitionOf(op, singletonServices', transientServices', scopedServices')

\* C14: the three partitions are independent. A Register* call fails with
\* DuplicateRegistration only when its own partition binds the key and writes to no
\* other partition; a Resolve* call whose own partition does not bind the key returns no
\* instance, whatever the other partitions bind: ResolveSingleton and ResolveTransient
\* fail with ServiceNotRegistered, and so does ResolveScoped when the scoped partition
\* binds no tag of the interface.
C14_PartitionsIndependent ==
    [][/\ \A op \in RegisterOps :
            last'.op = op
                => /\ last'.outcome = "DuplicateRegistration"
                        => HasService(PartitionBefore(op), last'.typeName, last'.tag)
                   /\ \A other \in RegisterOps \ {op} :
                        PartitionAfter(other) = PartitionBefore(other)
       /\ \A op \in ResolveOps :
            (last'.op = op /\ ~HasService(PartitionBefore(op), last'.typeName, last'.tag))
                => /\ last'.outcome /= "ok"
                   /\ last'.result = NoInstance
                   /\ (\/ op /= "ResolveScoped"
                       \/ \A t \in Tags : ~HasService(scopedServices, last'.typeName, t))
                        => /\ last'.outcome = "ServiceNotRegistered"
                           /\ last'.what = last'.typeName]_vars

C14_Witness ==
    /\ last.op = "ResolveScoped" /\ last.outcome = "ServiceNotRegistered"
    /\ HasService(transientServices, last.typeName, last.tag)
    /\ HasService(singletonServices, last.typeName, last.tag)
    /\ ~HasService(scopedServices, last.typeName, last.tag)

\* the holder a thread's call made
OwnHolder(t) == [instance |-> threads[t].service]

\* C15: RegisterSingleton is not atomic. Its duplicate check decides the call: a thread
\* fails with DuplicateRegistration only on a key bound when it checked, and a thread
\* that passed the check runs its factory and completes without DuplicateRegistration
\* even when another thread has bound the key in between; its store then meets the
\* earlier holder, which it replaces unless the write is lost. So two calls for
\* one key can both succeed, the factory having run twice, with the later holder in the
\* place of the earlier one.
C15_RegistrationNotAtomic ==
    [][\A t \in Threads :
          LET typeName == threads'[t].typeName
              tag == threads'[t].tag
          IN  /\ (threads[t].pc = "idle" /\ threads'[t].pc /= "idle")
                    => (threads'[t].outcome = "DuplicateRegistration"
                            <=> HasService(singletonServices, typeName, tag))
              /\ (threads[t].pc = "create" /\ threads'[t].pc = "store")
                    => /\ constructed' = constructed + 1
                       /\ threads'[t].service.id = constructed'
              /\ (threads[t].pc = "store" /\ threads'[t].pc /= "store")
                    => /\ threads'[t].pc = "done" /\ threads'[t].outcome = "ok"
                       /\ HasService(singletonServices', typeName, tag)
                       /\ IF HasService(singletonServices, typeName, tag)
                          THEN singletonServices'[typeName][tag]
                                  \in {OwnHolder(t), singletonServices[typeName][tag]}
                          ELSE singletonServices'[typeName][tag] = OwnHolder(t)
                       /\ threads'[t].replaced /= NoInstance
                            => /\ singletonServices'[typeName][tag] = OwnHolder(t)
                               /\ threads'[t].replaced
                                    = singletonServices[typeName][tag].instance]_vars

C15_Witness ==
    \E t1, t2 \in Threads :
        /\ t1 /= t2
        /\ threads[t1].pc = "done" /\ threads[t1].outcome = "ok"
        /\ threads[t2].pc = "done" /\ threads[t2].outcome = "ok"
        /\ threads[t1].typeName = threads[t2].typeName
        /\ threads[t1].tag = threads[t2].tag
        /\ constructed = 2
        /\ threads[t1].service /= threads[t2].service
        /\ threads[t2].replaced = threads[t1].service
        /\ singletonServices[threads[t2].typeName][threads[t2].tag] = OwnHolder(t2)

\* C16: in every step of a sequence of calls each partition keeps every key it binds,
\* with the same holder: the same implementation and, in the singleton partition, the
\* same stored instance.
C16_PartitionsOnlyGrow ==
    [][/\ \A i \in DOMAIN singletonServices : \A t \in DOMAIN singletonServices[i] :
            /\ HasService(singletonServices', i, t)
            /\ singletonServices'[i][t] = singletonServices[i][t]
       /\ \A i \in DOMAIN transientServices : \A t \in DOMAIN transientServices[i] :
            /\ HasService(transientServices', i, t)
            /\ transientServices'[i][t] = transientServices[i][t]
       /\ \A i \in DOMAIN scopedServices : \A t \in DOMAIN scopedServices[i] :
            /\ HasService(scopedServices', i, t)
            /\ scopedServices'[i][t] = scopedServices[i][t]]_vars

C16_Witness ==
    /\ last.op = "RegisterTransient" /\ last.outcome = "DuplicateRegistration"
    /\ transientServices[last.typeName][last.tag].impl /= last.impl
    /\ HolderCount(transientServices) = 2

\* C17: ResolveScoped never overwrites a populated slot of a scope. In every step each
\* entry of each scope stays, with the same instance; a call stores an instance only
\* into a slot that was unpopulated, the one it returns, and a call that returns no
\* instance leaves every scope as it was. So a scope holds at most one instance per key.
C17_ScopeSlotNeverOverwritten ==
    [][/\ \A s \in DOMAIN scopes : \A n \in DOMAIN scopes[s] :
            n \in DOMAIN scopes'[s] /\ scopes'[s][n] = scopes[s][n]
       /\ last'.op = "ResolveScoped"
            => IF last'.outcome = "ok"
               THEN /\ last'.typeName \notin DOMAIN scopes[last'.scope]
                    /\ scopes'[last'.scope][last'.typeName] = last'.result
                    /\ \A s \in DOMAIN scopes \ {last'.scope} : scopes'[s] = scopes[s]
               ELSE scopes' = scopes]_vars

C17_Witness ==
    /\ last.op = "ResolveScoped" /\ last.outcome = "empty"
    /\ <<last.typeName, last.tag>> \in scopeLog[last.scope]
    /\ Len(scopes) = 2
    /\ \A s \in DOMAIN scopes : last.typeName \in DOMAIN scopes[s]
    /\ scopes[1][last.typeName] /= scopes[2][last.typeName]

\* the instance has an owner: a live scope, or a handle a caller got from lock
Owned(w) == HeldByLiveScope(w) \/ w \in locked

\* C18: a reference ResolveScoped returned upgrades exactly while an owner keeps the
\* instance alive. The instance is destroyed exactly when it has no owner left; lock
\* returns the instance when it is alive, so always while its scope is alive, and
\* nothing otherwise; an instance a caller holds a handle to survives the destruction
\* of its scope and is destroyed by the release of that handle.
C18_ReferenceUpgradesWhileOwned ==
    [][/\ \A w \in weak' : w \in destroyed' <=> ~Owned(w)'
       /\ last'.op = "Lock"
            => LET w == Instance(last'.scope, last'.impl)
               IN  /\ w \in weak
                   /\ last'.outcome = "ok" <=> Owned(w)
                   /\ last'.outcome = "ok" => (last'.result = w /\ w \in locked')
                   /\ last'.outcome /= "ok"
                        => (last'.outcome = "empty" /\ last'.result = NoInstance)
       /\ \A w \in locked :
            w \in destroyed'
                => /\ ~HeldByLiveScope(w)
                   /\ last'.op = "Unlock"
                   /\ Instance(last'.scope, last'.impl) = w]_vars

C18_Witness ==
    /\ last.op = "Lock" /\ last.outcome = "ok"
    /\ LastRef \in locked /\ LastRef \notin destroyed
    /\ ~HeldByLiveScope(LastRef)
    /\ \E s \in DOMAIN scopes : scopeHolders[s] = 0

\* the failure the constructor of impl raises with the singletons registered now
CtorFailure(impl) == RunCtor(CtorResolves(impl), 1, singletonServices)

\* C19: a ResolveTransient or ResolveScoped whose factory fails, the constructor
\* resolving an unregistered singleton, fails with that very ServiceNotRegistered,
\* constructs nothing and changes no partition and no scope; and a ResolveScoped of a
\* bound key on a scope without an entry for it always runs the factory, so the call
\* after a failed one runs it again.
C19_FactoryFailurePropagates ==
    [][/\ \A op \in {"ResolveTransient", "ResolveScoped"} :
            (/\ last'.op = op
             /\ last'.factoryCalls = 1
             /\ ~CtorCompletes(PartitionBefore(op)[last'.typeName][last'.tag].impl))
                => LET failure ==
                           CtorFailure(PartitionBefore(op)[last'.typeName][last'.tag].impl)
                   IN  /\ last'.outcome = "ServiceNotRegistered"
                       /\ last'.outcome = failure.outcome
                       /\ last'.what = failure.what
                       /\ last'.result = NoInstance
                       /\ UNCHANGED <<registry, scopes, scopeLog, constructed, weak>>
       /\ \A s \in DOMAIN scopes : \A i \in Interfaces, t \in Tags :
            (/\ last'.op = "ResolveScoped" /\ last'.scope = s
             /\ last'.typeName = i /\ last'.tag = t
             /\ HasService(scopedServices, i, t)
             /\ i \notin DOMAIN scopes[s])
                => last'.factoryCalls = 1]_vars

C19_Witness ==
    /\ last.op = "ResolveScoped" /\ last.factoryCalls = 1
    /\ last.outcome = "ServiceNotRegistered" /\ last.what = "ILogger"
    /\ last.typeName = "IService"
    /\ HasService(scopedServices, last.typeName, last.tag)
    /\ last.typeName \notin DOMAIN scopes[last.scope]

\* C20: scoped registrations outlive scopes. The release of a scope handle, the last
\* one included, changes no partition; and when a scope that resolved a key has been
\* destroyed, ResolveScoped of that key on a scope created and not yet used returns a
\* valid reference to an instance constructed by that call, which the new scope holds.
C20_ScopedRegistrationsOutliveScopes ==
    [][/\ last'.op = "ReleaseScopeHandle" => UNCHANGED registry
       /\ \A s \in LiveScopes : \A gone \in DOMAIN scopes :
            (/\ scopeHolders[gone] = 0
             /\ scopes[s] = EmptyMap /\ scopeLog[s] = {}
             /\ last'.op = "ResolveScoped" /\ last'.scope = s
             /\ <<last'.typeName, last'.tag>> \in scopeLog[gone])
                => /\ last'.outcome = "ok"
                   /\ last'.factoryCalls = 1
                   /\ constructed' = constructed + 1
                   /\ last'.result.id = constructed'
                   /\ last'.result \notin weak
                   /\ last'.result \in weak' /\ last'.result \notin destroyed'
                   /\ scopes'[s][last'.typeName] = last'.result]_vars

C20_Witness ==
    /\ last.op = "ResolveScoped" /\ last.outcome = "ok" /\ last.scope = 2
    /\ scopeHolders[1] = 0 /\ scopeHolders[2] > 0
    /\ <<last.typeName, last.tag>> \in scopeLog[1]
    /\ scopes[2][last.typeName] = last.result
    /\ last.result \notin destroyed
    /\ \E w \in destroyed : w.id < last.result.id

\* HeldByLiveScope and HeldByCall as functions of the scopes, the handle counts and
\* the threads
HeldIn(scs, holders, inst) ==
    \E s \in DOMAIN scs : holders[s] > 0 /\ \E n \in DOMAIN scs[s] : scs[s][n] = inst
HeldByCallIn(ths, inst) == \E t \in Threads : ths[t].pc = "return" /\ ths[t].service = inst

\* C21: ResolveScoped is not atomic. Its scope check decides the call: a thread returns
\* the empty reference only on a slot populated when it checked, and a thread that
\* passed the check runs the factory, stores and returns a reference even when another
\* thread has populated the slot in between; its store then meets the earlier instance,
\* which it overwrites unless the write is lost. An overwritten instance has no owner
\* once the call that made it has returned, and an instance a returned reference names
\* is destroyed exactly when no scope holds it. So two calls for one key on one scope
\* can both run the factory and return, the earlier caller's reference naming an
\* instance without owner.
C21_ResolveScopedNotAtomic ==
    [][/\ \A t \in Threads :
            LET s == threads'[t].scope
                typeName == threads'[t].typeName
                own == threads'[t].service
            IN  /\ (threads[t].pc = "idle" /\ threads'[t].pc /= "idle")
                      => (threads'[t].outcome = "empty" <=> typeName \in DOMAIN scopes[s])
                /\ (threads[t].pc = "create" /\ threads'[t].pc = "store")
                      => (constructed' = constructed + 1 /\ own.id = constructed')
                /\ (threads[t].pc = "store" /\ threads'[t].pc /= "store")
                      => /\ threads'[t].pc = "return"
                         /\ typeName \in DOMAIN scopes'[s]
                         /\ IF typeName \in DOMAIN scopes[s]
                            THEN scopes'[s][typeName] \in {own, scopes[s][typeName]}
                            ELSE scopes'[s][typeName] = own
                         /\ threads'[t].replaced /= NoInstance
                              => /\ scopes'[s][typeName] = own
                                 /\ threads'[t].replaced = scopes[s][typeName]
                                 /\ ~HeldIn(scopes', scopeHolders', threads'[t].replaced)
                                 /\ \/ threads'[t].replaced \in destroyed'
                                    \/ HeldByCallIn(threads', threads'[t].replaced)
                /\ (threads[t].pc = "return" /\ threads'[t].pc /= "return")
                      => /\ threads'[t].pc = "done" /\ threads'[t].outcome = "ok"
                         /\ own \in weak'
       /\ \A w \in weak' : w \in destroyed' <=> ~HeldIn(scopes', scopeHolders', w)]_vars

C21_Witness ==
    \E t1, t2 \in Threads :
        /\ t1 /= t2
        /\ threads[t1].pc = "done" /\ threads[t1].outcome = "ok"
        /\ threads[t2].pc = "done" /\ threads[t2].outcome = "ok"
        /\ threads[t1].scope = threads[t2].scope
        /\ threads[t1].typeName = threads[t2].typeName
        /\ threads[t1].tag = threads[t2].tag
        /\ constructed = 2
        /\ threads[t2].replaced = threads[t1].service
        /\ scopes[threads[t2].scope][threads[t2].typeName] = threads[t2].service
        /\ threads[t1].service \in weak
        /\ threads[t1].service \in destroyed
        /\ ~HeldByLiveScope(threads[t1].service)

\* C22: resolutions and CreateScope leave the registry untouched. No Resolve* call and
\* no CreateScope changes a partition; ResolveSingleton and ResolveTransient change no
\* scope, CreateScope appends an empty scope and changes no existing one, and a
\* successful ResolveScoped changes only the scope it was given, which gains exactly
\* one entry, for the requested interface, and keeps the entries it had.
C22_ResolutionLeavesRegistryUntouched ==
    [][/\ last'.op \in ResolveOps \cup {"CreateScope"} => UNCHANGED registry
       /\ last'.op \in {"ResolveSingleton", "ResolveTransient"} => scopes' = scopes
       /\ last'.op = "CreateScope"
            => /\ Len(scopes') = Len(scopes) + 1
               /\ scopes'[Len(scopes')] = EmptyMap
               /\ \A s \in DOMAIN scopes : scopes'[s] = scopes[s]
       /\ (last'.op = "ResolveScoped" /\ last'.outcome = "ok")
            => /\ DOMAIN scopes' = DOMAIN scopes
               /\ \A s \in DOMAIN scopes \ {last'.scope} : scopes'[s] = scopes[s]
               /\ last'.typeName \notin DOMAIN scopes[last'.scope]
               /\ DOMAIN scopes'[last'.scope]
                     = DOMAIN scopes[last'.scope] \cup {last'.typeName}
               /\ \A n \in DOMAIN scopes[last'.scope] :
                     scopes'[last'.scope][n] = scopes[last'.scope][n]]_vars

C22_Witness ==
    /\ last.op = "ResolveScoped" /\ last.outcome = "ok" /\ last.scope = 2
    /\ DOMAIN scopes[2] = {last.typeName}
    /\ DOMAIN scopes[1] = {last.typeName}
    /\ scopes[1][last.typeName].id < last.result.id
    /\ HolderCount(scopedServices) = 2

\* the class of a holder: TypedServiceSingleton stores an instance, TypedService a
\* creator
HolderClass(holder) ==
    IF DOMAIN holder = {"instance"} THEN "TypedServiceSingleton"
    ELSE IF DOMAIN holder = {"impl"} THEN "TypedService"
    ELSE "other"

\* the interfaces T whose holder it can be: its implementation derives from T
HolderInterfaces(holder) ==
    {i \in Interfaces :
        \/ HolderClass(holder) = "TypedServiceSingleton" /\ holder.instance.impl \in ImplsOf(i)
        \/ HolderClass(holder) = "TypedService" /\ holder.impl \in ImplsOf(i)}

\* C23: every holder stored under interface T in the singleton partition is a
\* TypedServiceSingleton of T and every holder stored under T in the transient or the
\* scoped partition is a TypedService of T, under every tag, so the static downcast of
\* each Resolve* is to the class the holder has.
C23_HolderMatchesItsKey ==
    /\ DOMAIN singletonServices \subseteq Interfaces
    /\ DOMAIN transientServices \subseteq Interfaces
    /\ DOMAIN scopedServices \subseteq Interfaces
    /\ \A i \in Interfaces, t \in Tags :
        /\ HasService(singletonServices, i, t)
             => /\ HolderClass(singletonServices[i][t]) = "TypedServiceSingleton"
                /\ HolderInterfaces(singletonServices[i][t]) = {i}
        /\ HasService(transientServices, i, t)
             => /\ HolderClass(transientServices[i][t]) = "TypedService"
                /\ HolderInterfaces(transientServices[i][t]) = {i}
        /\ HasService(scopedServices, i, t)
             => /\ HolderClass(scopedServices[i][t]) = "TypedService"
                /\ HolderInterfaces(scopedServices[i][t]) = {i}

C23_Witness ==
    /\ last.op = "ResolveTransient" /\ last.outcome = "ok"
    /\ last.typeName = "IService" /\ last.tag = "Service2"
    /\ HasService(singletonServices, "ILogger", "")
    /\ HolderClass(singletonServices["ILogger"][""]) = "TypedServiceSingleton"
    /\ HolderClass(transientServices["IService"]["Service2"]) = "TypedService"

\* C24: a RegisterSingleton that fails with DuplicateRegistration runs no factory and
\* constructs nothing: RegisterSingleton of a bound key always fails so, with no
\* factory call, the number of constructed instances and the singleton partition as
\* they were.
C24_DuplicateSingletonConstructsNothing ==
    [][/\ (last'.op = "RegisterSingleton" /\ last'.outcome = "DuplicateRegistration")
            => /\ last'.factoryCalls = 0
               /\ constructed' = constructed
               /\ singletonServices' = singletonServices
               /\ HasService(singletonServices, last'.typeName, last'.tag)
       /\ (/\ last'.op = "RegisterSingleton"
           /\ HasService(singletonServices, last'.typeName, last'.tag))
            => /\ last'.outcome = "DuplicateRegistration"
               /\ constructed' = constructed]_vars

C24_Witness ==
    /\ last.op = "RegisterSingleton" /\ last.outcome = "DuplicateRegistration"
    /\ last.factoryCalls = 0
    /\ last.typeName = "IService"
    /\ singletonServices[last.typeName][last.tag].instance.impl /= last.impl
    /\ constructed = 2

\* C25: the demo program raises neither DuplicateRegistration nor ServiceNotRegistered.
\* main is never terminated by an exception; every Register* it comes to finds its key
\* unbound in its partition, every Resolve* finds its key bound, and every constructor
\* a factory runs finds the singletons it resolves registered.
C25_DemoRaisesNothing ==
    /\ threads[Main].pc /= "terminated"
    /\ last.outcome \notin {"DuplicateRegistration", "ServiceNotRegistered"}
    /\ (threads[Main].pc = "check" /\ Statement.op /= "ResolveScoped")
         => ~HasService(Partition(Statement.op), Statement.typeName, Statement.tag)
    /\ threads[Main].pc = "lookup"
         => HasService(Partition(Statement.op), Statement.typeName, Statement.tag)
    /\ threads[Main].pc = "create"
         => \A n \in DOMAIN CtorResolves(DemoImpl) :
               HasService(singletonServices, CtorResolves(DemoImpl)[n][1],
                          CtorResolves(DemoImpl)[n][2])

C25_Witness ==
    /\ threads[Main].pc = "exit"
    /\ last.op = "ResolveTransient" /\ last.outcome = "ok"
    /\ last.typeName = "AdvancedWebExample::IDatabase" /\ last.tag = "PostgreSQL"
    /\ last.result.impl = "AdvancedWebExample::PostgreSQLDatabase"
    /\ constructed = 21
    /\ Len(scopes) = 4

====
